---- MODULE Spec2Model ----
(***************************************************************************)
(* Model of the phase-2 customer-service graph                             *)
(* (src/phase-2/customer_service_agent.py): the six node functions, the     *)
(* two routers, the edges wired in build_app and the CLI driver main.       *)
(*                                                                         *)
(* A Python str is a finite sequence of word tokens.  Keywords are single   *)
(* tokens, a run of digits is one token, " " is a whitespace token.  The    *)
(* Chinese literals of the source are written in pinyin:                    *)
(*   tuikuan = refund keyword, dingdan = order keyword,                     *)
(*   shengqi fennu laji tousu chaping pianzi yaogaoni qisile = _ANGRY_WORDS,*)
(*   shi queren = the two Chinese "yes" answers of main.                    *)
(***************************************************************************)
EXTENDS Integers, Sequences, FiniteSets, TLC

\* ---------------------------------------------------------------- bounds
\* Number of user messages main submits before the model stops reading.
MaxTurns == 3
\* Number of direct re-executions of process_refund (SpecRetry only).
MaxReruns == 2

\* ------------------------------------------------------- Python values
\* None, as a value of an optional str field.
None == "<None>"

PyNone == [kind |-> "none"]
PyBool(b) == [kind |-> "bool", b |-> b]
PyStr(s) == [kind |-> "str", s |-> s]
PyDict(d) == [kind |-> "dict", d |-> d]

\* {} : the dict without keys.
EmptyDict == [k \in {} |-> None]

\* bool(v)
Truthy(v) ==
  CASE v.kind = "bool" -> v.b
    [] v.kind = "str" -> v.s # <<>>
    [] v.kind = "dict" -> DOMAIN v.d # {}
    [] OTHER -> FALSE

\* d.get(k) on a dict of Python values
PyGet(v, k) == IF k \in DOMAIN v.d THEN v.d[k] ELSE PyNone

\* d.get(k) on a dict of optional strings
Get(d, k) == IF k \in DOMAIN d THEN d[k] ELSE None

\* {**b, **a}: the entries of a win.
DictMerge_KeepOld(a, b) ==
  [k \in (DOMAIN a) \cup (DOMAIN b) |-> IF k \in DOMAIN a THEN a[k] ELSE b[k]]

\* {**a, **b}
DictMerge(a, b) ==
  [k \in (DOMAIN a) \cup (DOMAIN b) |-> IF k \in DOMAIN b THEN b[k] ELSE a[k]]

\* ------------------------------------------------------------- strings
DigitTokens == {"12345", "678", "12"}
Whitespace == {" "}

\* str.lower() on one token
LowerTok(t) ==
  CASE t = "Refund" -> "refund"
    [] t = "ORDER" -> "order"
    [] t = "QUIT" -> "quit"
    [] t = "YES" -> "yes"
    [] OTHER -> t

\* str.lower()
Lower(text) == [i \in DOMAIN text |-> LowerTok(text[i])]

\* str.strip()
RECURSIVE Strip(_)
Strip(text) ==
  IF text = <<>> THEN text
  ELSE IF Head(text) \in Whitespace THEN Strip(Tail(text))
  ELSE IF text[Len(text)] \in Whitespace THEN Strip(SubSeq(text, 1, Len(text) - 1))
  ELSE text

\* kw in text
Contains(text, kw) == \E i \in DOMAIN text : text[i] = kw

\* [0-9]{3,} : the least number of digits of an order id
MinOrderDigits == 3

\* (?:dingdan|order) under re.IGNORECASE
IsOrderWord(t) == LowerTok(t) \in {"order", "dingdan"}

\* The digit run that ends [^0-9]* when the pattern is tried at position i:
\* the first digit token after i, 0 if there is none.
FirstDigitAfter(text, i) ==
  LET ds == {j \in DOMAIN text : j > i /\ text[j] \in DigitTokens}
  IN IF ds = {} THEN 0 ELSE CHOOSE j \in ds : \A k \in ds : j <= k

\* _ORDER_ID_RE matches at position i
OrderMatchAt(text, i) ==
  /\ IsOrderWord(text[i])
  /\ FirstDigitAfter(text, i) # 0
  /\ Len(text[FirstDigitAfter(text, i)]) >= MinOrderDigits

\* _ORDER_ID_RE.search(text).group(1), None without a match
OrderIdSearch(text) ==
  LET ms == {i \in DOMAIN text : OrderMatchAt(text, i)}
  IN IF ms = {} THEN None
     ELSE text[FirstDigitAfter(text, CHOOSE i \in ms : \A k \in ms : i <= k)]

_ANGRY_WORDS ==
  {"shengqi", "fennu", "laji", "tousu", "chaping", "pianzi", "yaogaoni", "qisile"}

_extract_user_info(text) ==
  IF OrderIdSearch(text) # None THEN [order_id |-> OrderIdSearch(text)] ELSE EmptyDict

_is_angry(text) == \E w \in _ANGRY_WORDS : Contains(text, w)

\* ------------------------------------------------------------ messages
\* add_messages turns {"role": "user"} into a message of type "human" and
\* {"role": "assistant"} into one of type "ai".
Human(text) == [type |-> "human", content |-> text]
Ai(content) == [type |-> "ai", content |-> content]

\* CustomerServiceState()
InitialState ==
  [messages |-> <<>>,
   user_info |-> EmptyDict,
   intent |-> "unknown",
   needs_human |-> FALSE,
   refund_decision |-> "pending",
   refund_transaction_id |-> None]

\* A node's return {} : no field is written.
NoUpdate == [k \in {} |-> None]

\* The channel update of a node's return value: messages goes through
\* add_messages (append), every other field is overwritten, a field the
\* node does not return keeps its value.
ApplyDelta(s, d) ==
  [f \in DOMAIN s |->
     IF f \in DOMAIN d
     THEN IF f = "messages" THEN s.messages \o d.messages ELSE d[f]
     ELSE s[f]]

\* ---------------------------------------------------------------- nodes
\* The content of the last message of type human/user, "" without one.
LastUserText(msgs) ==
  LET hs == {i \in DOMAIN msgs : msgs[i].type \in {"human", "user"}}
  IN IF hs = {} THEN <<>> ELSE msgs[CHOOSE i \in hs : \A k \in hs : k <= i].content

\* IntentOf with the refund keyword looked up in the text as typed.
IntentOf_CaseSensitive(text) ==
  IF Contains(text, "tuikuan") \/ Contains(text, "refund") THEN "refund"
  ELSE IF Strip(text) # <<>> THEN "consult"
  ELSE "unknown"

\* The intent chosen from the last user text.
IntentOf(text) ==
  IF Contains(text, "tuikuan") \/ Contains(Lower(text), "refund") THEN "refund"
  ELSE IF Strip(text) # <<>> THEN "consult"
  ELSE "unknown"

\* classify_intent that never resets refund_decision.
classify_intent_NoReset(s) ==
  LET last_user_text == LastUserText(s.messages)
  IN [user_info |-> DictMerge(s.user_info, _extract_user_info(last_user_text)),
      intent |-> IntentOf(last_user_text),
      needs_human |-> _is_angry(last_user_text),
      refund_decision |-> s.refund_decision]

\* classify_intent resetting refund_decision whether or not a refund has been
\* issued.
classify_intent_ResetAlways(s) ==
  LET last_user_text == LastUserText(s.messages)
  IN [user_info |-> DictMerge(s.user_info, _extract_user_info(last_user_text)),
      intent |-> IntentOf(last_user_text),
      needs_human |-> _is_angry(last_user_text),
      refund_decision |->
        IF IntentOf(last_user_text) = "refund" THEN "pending" ELSE s.refund_decision]

classify_intent(s) ==
  LET last_user_text == LastUserText(s.messages)
      info_update == _extract_user_info(last_user_text)
      merged_info == DictMerge(s.user_info, info_update)
      intent == IntentOf(last_user_text)
      needs_human == _is_angry(last_user_text)
      refund_decision ==
        IF intent = "refund" /\ s.refund_transaction_id = None
        THEN "pending" ELSE s.refund_decision
  IN [user_info |-> merged_info,
      intent |-> intent,
      needs_human |-> needs_human,
      refund_decision |-> refund_decision]

human_handoff(s) == [messages |-> <<Ai(<<"handoff">>)>>]

\* Python truthiness of an optional str
StrTruthy(x) == x # None /\ x # ""

\* Approved without the dict case: bool(decision) whatever it is.
Approved_NoDictCase(decision) == Truthy(decision)

\* Approved taking a dict that holds the key "approved" as an approval.
Approved_KeyPresent(decision) ==
  IF decision.kind = "dict" THEN "approved" \in DOMAIN decision.d
  ELSE Truthy(decision)

\* The approval read from the value interrupt() returns.
Approved(decision) ==
  IF decision.kind = "dict" THEN Truthy(PyGet(decision, "approved"))
  ELSE Truthy(decision)

\* No value to resume with: interrupt() raises and the run suspends.
NoResume == [kind |-> "absent"]
NoInterrupt == [type |-> "none"]

\* confirm_refund issuing the refund before it asks.
confirm_refund_IssueBeforeInterrupt(s, rv) ==
  IF s.refund_decision # "pending"
  THEN [suspended |-> FALSE, payload |-> NoInterrupt, calls |-> <<>>, delta |-> NoUpdate]
  ELSE
    LET order_id == Get(s.user_info, "order_id")
        prompt == [type |-> "confirm_refund",
                   question |-> "yes/no",
                   context |-> [order_id |-> order_id]]
        issued == <<[order_id |-> order_id, tx |-> "refund_early"]>>
    IN IF rv = NoResume
       THEN [suspended |-> TRUE, payload |-> prompt, calls |-> issued, delta |-> NoUpdate]
       ELSE IF ~Approved(rv)
       THEN [suspended |-> FALSE, payload |-> NoInterrupt, calls |-> issued,
             delta |-> [refund_decision |-> "declined",
                        messages |-> <<Ai(<<"declined">>)>>]]
       ELSE [suspended |-> FALSE, payload |-> NoInterrupt, calls |-> issued,
             delta |-> [refund_decision |-> "approved",
                        messages |-> <<Ai(<<"approved">>)>>]]

\* confirm_refund run with rv as the value interrupt() has to return.  The
\* result says whether the node suspended (with its payload) or returned
\* (with its update), and lists the calls of _issue_refund_tool it made.
confirm_refund(s, rv) ==
  IF s.refund_decision # "pending"
  THEN [suspended |-> FALSE, payload |-> NoInterrupt, calls |-> <<>>, delta |-> NoUpdate]
  ELSE
    LET order_id == Get(s.user_info, "order_id")
        prompt == [type |-> "confirm_refund",
                   question |-> "yes/no",
                   context |-> [order_id |-> order_id]]
    IN IF rv = NoResume
       THEN [suspended |-> TRUE, payload |-> prompt, calls |-> <<>>, delta |-> NoUpdate]
       ELSE IF ~Approved(rv)
       THEN [suspended |-> FALSE, payload |-> NoInterrupt, calls |-> <<>>,
             delta |-> [refund_decision |-> "declined",
                        messages |-> <<Ai(<<"declined">>)>>]]
       ELSE [suspended |-> FALSE, payload |-> NoInterrupt, calls |-> <<>>,
             delta |-> [refund_decision |-> "approved",
                        messages |-> <<Ai(<<"approved">>)>>]]

\* uuid.uuid4().hex[:8]
Uuids == {"a1", "b2"}

_issue_refund_tool(order_id, uuid) ==
  "refund_" \o (IF StrTruthy(order_id) THEN order_id ELSE "unknown") \o "_" \o uuid

\* process_refund without its idempotency guard.
process_refund_NoGuard(s, uuid) ==
  IF s.refund_decision # "approved"
  THEN [calls |-> <<>>, delta |-> NoUpdate]
  ELSE
    LET order_id == Get(s.user_info, "order_id")
        tx_id == _issue_refund_tool(order_id, uuid)
    IN [calls |-> <<[order_id |-> order_id, tx |-> tx_id]>>,
        delta |-> [refund_transaction_id |-> tx_id,
                   messages |-> <<Ai(<<"issued", tx_id>>)>>]]

\* process_refund with the tool called before the idempotency guard is read.
process_refund_CallBeforeGuard(s, uuid) ==
  IF s.refund_decision # "approved"
  THEN [calls |-> <<>>, delta |-> NoUpdate]
  ELSE
    LET order_id == Get(s.user_info, "order_id")
        tx_id == _issue_refund_tool(order_id, uuid)
    IN IF StrTruthy(s.refund_transaction_id)
       THEN [calls |-> <<[order_id |-> order_id, tx |-> tx_id]>>,
             delta |-> [messages |-> <<Ai(<<"already", s.refund_transaction_id>>)>>]]
       ELSE [calls |-> <<[order_id |-> order_id, tx |-> tx_id]>>,
             delta |-> [refund_transaction_id |-> tx_id,
                        messages |-> <<Ai(<<"issued", tx_id>>)>>]]

\* process_refund reading the order id from the last user message again.
process_refund_ReExtract(s, uuid) ==
  IF s.refund_decision # "approved"
  THEN [calls |-> <<>>, delta |-> NoUpdate]
  ELSE IF StrTruthy(s.refund_transaction_id)
  THEN [calls |-> <<>>,
        delta |-> [messages |-> <<Ai(<<"already", s.refund_transaction_id>>)>>]]
  ELSE
    LET order_id == Get(_extract_user_info(LastUserText(s.messages)), "order_id")
        tx_id == _issue_refund_tool(order_id, uuid)
    IN [calls |-> <<[order_id |-> order_id, tx |-> tx_id]>>,
        delta |-> [refund_transaction_id |-> tx_id,
                   messages |-> <<Ai(<<"issued", tx_id>>)>>]]

\* process_refund with uuid as what uuid4 yields if the tool is called.  calls
\* lists the calls of _issue_refund_tool the node made.
process_refund(s, uuid) ==
  IF s.refund_decision # "approved"
  THEN [calls |-> <<>>, delta |-> NoUpdate]
  ELSE IF StrTruthy(s.refund_transaction_id)
  THEN [calls |-> <<>>,
        delta |-> [messages |-> <<Ai(<<"already", s.refund_transaction_id>>)>>]]
  ELSE
    LET order_id == Get(s.user_info, "order_id")
        tx_id == _issue_refund_tool(order_id, uuid)
    IN [calls |-> <<[order_id |-> order_id, tx |-> tx_id]>>,
        delta |-> [refund_transaction_id |-> tx_id,
                   messages |-> <<Ai(<<"issued", tx_id>>)>>]]

refund_status(s) ==
  IF ~StrTruthy(s.refund_transaction_id) THEN NoUpdate
  ELSE [messages |-> <<Ai(<<"status", s.refund_transaction_id>>)>>]

answer_consult(s) == [messages |-> <<Ai(<<"consult">>)>>]

\* -------------------------------------------------------------- routers
\* _route_after_classify without the look at refund_transaction_id.
_route_after_classify_NoTxCheck(s) ==
  IF s.needs_human THEN "human_handoff"
  ELSE IF s.intent = "refund" THEN "confirm_refund"
  ELSE "answer_consult"

\* _route_after_classify with needs_human read after the intent.
_route_after_classify_IntentFirst(s) ==
  IF s.intent = "refund"
  THEN IF StrTruthy(s.refund_transaction_id) THEN "refund_status" ELSE "confirm_refund"
  ELSE IF s.needs_human THEN "human_handoff"
  ELSE "answer_consult"

_route_after_classify(s) ==
  IF s.needs_human THEN "human_handoff"
  ELSE IF s.intent = "refund"
  THEN IF StrTruthy(s.refund_transaction_id) THEN "refund_status" ELSE "confirm_refund"
  ELSE "answer_consult"

\* _route_after_confirm going on to process_refund whatever was decided.
_route_after_confirm_Always(s) == "process_refund"

\* _route_after_confirm comparing with the wrong literal.
_route_after_confirm_WrongLiteral(s) ==
  IF s.refund_decision = "pending" THEN "process_refund" ELSE "end"

\* _route_after_confirm returning END's name instead of the key "end".
_route_after_confirm_EndName(s) ==
  IF s.refund_decision = "approved" THEN "process_refund" ELSE "END"

_route_after_confirm(s) ==
  IF s.refund_decision = "approved" THEN "process_refund" ELSE "end"

\* build_app: the entry point and the edges.
EntryPoint == "classify_intent"

ClassifyEdges ==
  [human_handoff |-> "human_handoff",
   confirm_refund |-> "confirm_refund",
   refund_status |-> "refund_status",
   answer_consult |-> "answer_consult"]

ConfirmEdges == [process_refund |-> "process_refund", end |-> "END"]

\* add_conditional_edges: the node the router's key is mapped to.
Target(key, edges) == IF key \in DOMAIN edges THEN edges[key] ELSE "UNMAPPED"

\* ------------------------------------ run_agent (phrase-1/simple_agent.py)
\* Number of completion requests run_agent makes before the model stops.
MaxRequests == 3

\* str(n) of a natural number
DigitStr == <<"0", "1", "2", "3", "4", "5", "6", "7", "8", "9">>

RECURSIVE Str(_)
Str(n) == IF n < 10 THEN DigitStr[n + 1] ELSE Str(n \div 10) \o DigitStr[(n % 10) + 1]

available_functions == {"multiply"}

\* The history run_agent starts with.
InitialMessages ==
  << [role |-> "system", content |-> "prompt"],
     [role |-> "user", content |-> "user_query"] >>

\* The arguments string of a tool call: whether it is JSON, and the object
\* it then denotes.
GoodArgs == [json |-> TRUE, obj |-> [a |-> 3, b |-> 2]]
MissingArg == [json |-> TRUE, obj |-> [a |-> 3]]
BadJson == [json |-> FALSE, obj |-> EmptyDict]

\* json.loads: the object, or the exception it raises.
json_loads(arguments) ==
  IF arguments.json THEN [raised |-> FALSE, value |-> arguments.obj]
  ELSE [raised |-> TRUE, value |-> EmptyDict]

\* function_args.get(k): a number or None
ArgGet(d, k) ==
  IF k \in DOMAIN d THEN [none |-> FALSE, n |-> d[k]] ELSE [none |-> TRUE, n |-> 0]

\* multiply(a, b): a * b, a TypeError when an operand is None.
multiply(a, b) ==
  IF a.none \/ b.none THEN [raised |-> TRUE, value |-> 0]
  ELSE [raised |-> FALSE, value |-> a.n * b.n]

ToolCall(k, name, arguments) ==
  [id |-> "call_" \o Str(k), name |-> name, arguments |-> arguments]

\* response.choices[0].message with its tool_calls: None or a list.
Message(none, calls) ==
  [role |-> "assistant", content |-> "text",
   tool_calls |-> [none |-> none, calls |-> calls]]

\* What the model may answer when k tool calls have been named so far.
Replies(k) ==
  { Message(TRUE, <<>>),
    Message(FALSE, <<>>),
    Message(FALSE, <<ToolCall(k + 1, "multiply", GoodArgs)>>),
    Message(FALSE, <<ToolCall(k + 1, "divide", GoodArgs)>>),
    Message(FALSE, <<ToolCall(k + 1, "multiply", GoodArgs),
                     ToolCall(k + 2, "multiply", GoodArgs)>>),
    Message(FALSE, <<ToolCall(k + 1, "multiply", GoodArgs),
                     ToolCall(k + 2, "divide", GoodArgs)>>),
    Message(FALSE, <<ToolCall(k + 1, "multiply", BadJson)>>),
    Message(FALSE, <<ToolCall(k + 1, "multiply", GoodArgs),
                     ToolCall(k + 2, "multiply", MissingArg)>>) }

\* if tool_calls, taking any list that is not None as true.
HasToolCalls_NotNone(tool_calls) == ~tool_calls.none

\* if tool_calls
HasToolCalls(tool_calls) == ~tool_calls.none /\ tool_calls.calls # <<>>

\* The for loop over tool_calls, from history msgs: the history it leaves and
\* whether it was left by an exception.
RECURSIVE RunToolCalls(_, _)
RunToolCalls(tool_calls, msgs) ==
  IF tool_calls = <<>> THEN [raised |-> FALSE, messages |-> msgs]
  ELSE
    LET tool_call == Head(tool_calls)
        function_name == tool_call.name
        function_args == json_loads(tool_call.arguments)
    IN IF function_args.raised THEN [raised |-> TRUE, messages |-> msgs]
       ELSE IF function_name \in available_functions
       THEN LET function_response ==
                  multiply(ArgGet(function_args.value, "a"),
                           ArgGet(function_args.value, "b"))
            IN IF function_response.raised THEN [raised |-> TRUE, messages |-> msgs]
               ELSE RunToolCalls(Tail(tool_calls),
                      Append(msgs, [role |-> "tool",
                                    tool_call_id |-> tool_call.id,
                                    name |-> function_name,
                                    content |-> Str(function_response.value)]))
       ELSE RunToolCalls(Tail(tool_calls), msgs)

\* state      the thread's CustomerServiceState (the latest checkpoint)
\* status     NEW (no run yet), RUNNING, SUSPENDED, TERMINATED, ERROR
\* next       the node the run executes next
\* resume     the value the next interrupt() returns, NoResume without one
\* interrupt  the payload of the pending interrupt
\* route      the last key a router returned, and the node it routed from
\* mpc        where main is: at the prompt, inside app.invoke, or exited
\* cursor     main's render cursor
\* printed    the contents main has printed
\* History:
\* turns       the number of messages submitted
\* trace       what happened in the run of the latest message
\* runStart    the state the latest message found
\* lastResume  the value the run was resumed with, NoResume if it was not
\* refundCalls every call of _issue_refund_tool made for the thread
\* reruns      the number of re-executions of process_refund
\* lastPayload the payload of the run's last interrupt, pending or answered
\* run_agent (src/phrase-1/simple_agent.py):
\* agent_messages  the local list messages
\* agent_pc        request (at the top of the loop), respond (a response has
\*                 come), done (after break), raised (left by an exception)
\* responses       the response messages received; the last is response_message
\* requests        history: the message list each completion request sent
VARIABLES state, status, next, resume, interrupt, route, mpc, cursor, printed,
          turns, trace, runStart, lastResume, refundCalls, reruns, lastPayload,
          agent_messages, agent_pc, responses, requests

agentVars == <<agent_messages, agent_pc, responses, requests>>

graphVars == <<state, status, next, resume, interrupt, route, mpc, cursor, printed,
               turns, trace, runStart, lastResume, refundCalls, reruns, lastPayload>>

vars == <<state, status, next, resume, interrupt, route, mpc, cursor, printed,
          turns, trace, runStart, lastResume, refundCalls, reruns, lastPayload,
          agentVars>>

\* --------------------------------------------------------------- inputs
\* What the user may type at the "User: " prompt.
RawLines ==
  { <<>>,
    <<" ">>,
    <<"hello">>,
    <<" ", "refund", "order", "12345", " ">>,
    <<"Refund", "ORDER", "#", "678">>,
    <<"tuikuan">>,
    <<"order", "12", "dingdan", "678">>,
    <<"refund", "laji">>,
    <<"tousu">>,
    <<"refund", "status">>,
    <<"QUIT">>,
    <<" ", "q">> }

\* What the operator may type at the confirmation prompt.
RawAnswers ==
  { <<"y">>, <<" ", "YES">>, <<"queren">>, <<"no">>, <<>>, <<"yes", "please">> }

\* The answers main takes as an approval.
YesAnswers == { <<"y">>, <<"yes">>, <<"shi">>, <<"queren">>, <<"ok">> }

\* The inputs that end main's loop.
QuitWords == { <<"quit">>, <<"exit">>, <<"q">> }

\* The values a caller of the compiled graph may resume with.
ResumeValues ==
  { PyBool(TRUE), PyBool(FALSE),
    PyDict([approved |-> PyBool(TRUE)]),
    PyDict([approved |-> PyBool(FALSE)]),
    PyDict([approved |-> PyStr(<<"no">>)]),
    PyDict([approved |-> PyNone]),
    PyDict([note |-> PyStr(<<"y">>)]),
    PyDict(EmptyDict),
    PyStr(<<"y">>), PyStr(<<>>), PyNone }

\* The message texts a caller of the compiled graph may submit.
ApiTexts == {Strip(raw) : raw \in RawLines} \cup { <<" ">> }

\* --------------------------------------------------------------- engine
\* The run goes on to node target, or ends at END; an unmapped route is
\* an error of the graph.
GoTo(target) ==
  /\ next' = target
  /\ status' = IF target = "END" THEN "TERMINATED"
               ELSE IF target = "UNMAPPED" THEN "ERROR"
               ELSE "RUNNING"

engineHist == <<turns, reruns, runStart>>
driverVars == <<mpc, cursor, printed>>

\* app.invoke({"messages": [{"role": "user", "content": text}]}): a new run
\* of the thread from the entry point.
Invoke(text) ==
  /\ turns < MaxTurns
  /\ turns' = turns + 1
  /\ state' = ApplyDelta(state, [messages |-> <<Human(text)>>])
  /\ status' = "RUNNING"
  /\ next' = EntryPoint
  /\ resume' = NoResume
  /\ interrupt' = NoInterrupt
  /\ lastResume' = NoResume
  /\ trace' = <<>>
  /\ runStart' = state
  /\ lastPayload' = NoInterrupt
  /\ UNCHANGED <<route, refundCalls, reruns, agentVars>>

\* app.invoke(Command(resume=v)): the suspended node is run again, with v
\* as the value of its interrupt().
Resume(v) ==
  /\ status' = "RUNNING"
  /\ resume' = v
  /\ lastResume' = v
  /\ interrupt' = NoInterrupt
  /\ trace' = Append(trace, "resume")
  /\ UNCHANGED <<state, next, route, runStart, refundCalls, turns, reruns, lastPayload,
                 agentVars>>

ClassifyIntent ==
  /\ status = "RUNNING" /\ next = "classify_intent"
  /\ LET s1 == ApplyDelta(state, classify_intent(state))
         key == _route_after_classify(s1)
     IN /\ state' = s1
        /\ route' = [from |-> "classify_intent", key |-> key]
        /\ GoTo(Target(key, ClassifyEdges))
  /\ trace' = Append(trace, "classify_intent")
  /\ UNCHANGED <<resume, interrupt, lastResume, refundCalls, engineHist, driverVars,
                 lastPayload, agentVars>>

HumanHandoff ==
  /\ status = "RUNNING" /\ next = "human_handoff"
  /\ state' = ApplyDelta(state, human_handoff(state))
  /\ GoTo("END")
  /\ trace' = Append(trace, "human_handoff")
  /\ UNCHANGED <<resume, interrupt, route, lastResume, refundCalls, engineHist, driverVars,
                 lastPayload, agentVars>>

ConfirmRefund ==
  /\ status = "RUNNING" /\ next = "confirm_refund"
  /\ LET r == confirm_refund(state, resume)
         s1 == ApplyDelta(state, r.delta)
         key == _route_after_confirm(s1)
     IN IF r.suspended
        THEN /\ status' = "SUSPENDED"
             /\ interrupt' = r.payload
             /\ lastPayload' = r.payload
             /\ refundCalls' = refundCalls \o r.calls
             /\ trace' = Append(trace, "interrupt")
             /\ UNCHANGED <<state, next, route, resume>>
        ELSE /\ state' = s1
             /\ route' = [from |-> "confirm_refund", key |-> key]
             /\ GoTo(Target(key, ConfirmEdges))
             /\ resume' = NoResume
             /\ refundCalls' = refundCalls \o r.calls
             /\ trace' = Append(trace, "confirm_refund")
             /\ UNCHANGED <<interrupt, lastPayload>>
  /\ UNCHANGED <<lastResume, engineHist, driverVars, agentVars>>

ProcessRefund ==
  /\ status = "RUNNING" /\ next = "process_refund"
  /\ \E uuid \in Uuids :
       LET r == process_refund(state, uuid)
       IN /\ state' = ApplyDelta(state, r.delta)
          /\ refundCalls' = refundCalls \o r.calls
          /\ trace' = Append(trace, "process_refund") \o
                        [i \in DOMAIN r.calls |-> "_issue_refund_tool"]
  /\ GoTo("END")
  /\ UNCHANGED <<resume, interrupt, route, lastResume, engineHist, driverVars,
                 lastPayload, agentVars>>

RefundStatus ==
  /\ status = "RUNNING" /\ next = "refund_status"
  /\ state' = ApplyDelta(state, refund_status(state))
  /\ GoTo("END")
  /\ trace' = Append(trace, "refund_status")
  /\ UNCHANGED <<resume, interrupt, route, lastResume, refundCalls, engineHist, driverVars,
                 lastPayload, agentVars>>

AnswerConsult ==
  /\ status = "RUNNING" /\ next = "answer_consult"
  /\ state' = ApplyDelta(state, answer_consult(state))
  /\ GoTo("END")
  /\ trace' = Append(trace, "answer_consult")
  /\ UNCHANGED <<resume, interrupt, route, lastResume, refundCalls, engineHist, driverVars,
                 lastPayload, agentVars>>

\* A node of the graph runs.
NodeStep ==
  \/ ClassifyIntent
  \/ HumanHandoff
  \/ ConfirmRefund
  \/ ProcessRefund
  \/ RefundStatus
  \/ AnswerConsult

\* process_refund is executed once more on the thread's state, as the engine
\* does when it retries the node.
RerunProcessRefund ==
  /\ status = "TERMINATED"
  /\ trace # <<>> /\ trace[Len(trace)] \in {"process_refund", "_issue_refund_tool", "rerun"}
  /\ reruns < MaxReruns
  /\ reruns' = reruns + 1
  /\ \E uuid \in Uuids :
       LET r == process_refund(state, uuid)
       IN /\ state' = ApplyDelta(state, r.delta)
          /\ refundCalls' = refundCalls \o r.calls
          /\ trace' = trace \o [i \in DOMAIN r.calls |-> "_issue_refund_tool"] \o <<"rerun">>
  /\ UNCHANGED <<status, next, resume, interrupt, route, lastResume, turns, runStart,
                 driverVars, lastPayload, agentVars>>

\* ------------------------------------------------------------- main
\* The assistant messages of messages[start_at:], in order.
NewAiContents(messages, start_at) ==
  LET IsAi(m) == m.type \in {"ai", "assistant"}
      tail == SubSeq(messages, start_at + 1, Len(messages))
  IN [i \in DOMAIN SelectSeq(tail, IsAi) |-> SelectSeq(tail, IsAi)[i].content]

\* _render_ai_messages returning the cursor moved by the number of messages
\* it printed.
_render_ai_messages_CountPrinted(messages, start_at) ==
  start_at + Len(NewAiContents(messages, start_at))

\* _render_ai_messages: the new cursor.
_render_ai_messages(messages, start_at) == Len(messages)

\* app.invoke has returned to its caller.
Returned == status \in {"SUSPENDED", "TERMINATED"}

\* The interrupt looked up under a key the result never holds.
HasInterrupt_WrongKey == FALSE

\* "__interrupt__" in out
HasInterrupt == status = "SUSPENDED"

\* main reads a line at "User: ": it leaves the loop on a quit word and
\* submits anything else to the graph.
MainInput ==
  /\ mpc = "input"
  /\ \E raw \in RawLines :
       LET user_text == Strip(raw)
       IN IF Lower(user_text) \in QuitWords
          THEN /\ mpc' = "exited"
               /\ UNCHANGED <<state, status, next, resume, interrupt, route, turns,
                              trace, runStart, lastResume, refundCalls, reruns,
                              lastPayload, agentVars>>
          ELSE /\ Invoke(user_text)
               /\ mpc' = "invoke"
  /\ UNCHANGED <<cursor, printed>>

\* main's inner loop: the result holds "__interrupt__", the operator is
\* asked and the graph resumed with the answer.
MainResume ==
  /\ mpc = "invoke"
  /\ HasInterrupt
  /\ \E raw \in RawAnswers :
       IF interrupt.type = "confirm_refund"
       THEN Resume(PyDict([approved |-> PyBool(Lower(Strip(raw)) \in YesAnswers)]))
       ELSE Resume(PyStr(Strip(raw)))
  /\ UNCHANGED driverVars

\* main renders the result of a finished run and goes back to the prompt.
MainRender ==
  /\ mpc = "invoke"
  /\ Returned
  /\ ~HasInterrupt
  /\ printed' = printed \o NewAiContents(state.messages, cursor)
  /\ cursor' = _render_ai_messages(state.messages, cursor)
  /\ mpc' = "input"
  /\ UNCHANGED <<state, status, next, resume, interrupt, route, turns, trace,
                 runStart, lastResume, refundCalls, reruns, lastPayload, agentVars>>

\* A caller other than main drives the compiled graph.
ApiInvoke ==
  /\ status \in {"NEW", "TERMINATED"}
  /\ \E text \in ApiTexts : Invoke(text)
  /\ UNCHANGED driverVars

ApiResume ==
  /\ status = "SUSPENDED"
  /\ \E v \in ResumeValues : Resume(v)
  /\ UNCHANGED driverVars

Init ==
  /\ state = InitialState
  /\ status = "NEW"
  /\ next = EntryPoint
  /\ resume = NoResume
  /\ interrupt = NoInterrupt
  /\ route = [from |-> "none", key |-> "none"]
  /\ mpc = "input"
  /\ cursor = 0
  /\ printed = <<>>
  /\ turns = 0
  /\ trace = <<>>
  /\ runStart = InitialState
  /\ lastResume = NoResume
  /\ refundCalls = <<>>
  /\ reruns = 0
  /\ lastPayload = NoInterrupt
  /\ agent_messages = InitialMessages
  /\ agent_pc = "request"
  /\ responses = <<>>
  /\ requests = <<>>

\* main drives the graph.
Next == MainInput \/ MainResume \/ MainRender \/ NodeStep

Spec == Init /\ [][Next]_vars

\* Any caller drives the graph, with any resume value.
NextApi == ApiInvoke \/ ApiResume \/ NodeStep

SpecApi == Init /\ [][NextApi]_vars

\* main drives the graph and the engine may re-execute process_refund.
NextRetry == Next \/ RerunProcessRefund

SpecRetry == Init /\ [][NextRetry]_vars

\* ------------------------------------------------------------ run_agent
\* The top of the loop: the history is sent and a response comes back.
CreateCompletion ==
  /\ agent_pc = "request"
  /\ Len(requests) < MaxRequests
  /\ requests' = Append(requests, agent_messages)
  /\ \E m \in Replies(2 * Len(responses)) : responses' = Append(responses, m)
  /\ agent_pc' = "respond"
  /\ UNCHANGED <<agent_messages, graphVars>>

\* The response asks for tools: it is appended, then each call is run.
HandleToolCalls ==
  /\ agent_pc = "respond"
  /\ LET response_message == responses[Len(responses)]
         r == RunToolCalls(response_message.tool_calls.calls,
                           Append(agent_messages, response_message))
     IN /\ HasToolCalls(response_message.tool_calls)
        /\ agent_messages' = r.messages
        /\ agent_pc' = IF r.raised THEN "raised" ELSE "request"
  /\ UNCHANGED <<responses, requests, graphVars>>

\* The response asks for no tool: it is printed and the loop left.
Finish ==
  /\ agent_pc = "respond"
  /\ ~HasToolCalls(responses[Len(responses)].tool_calls)
  /\ agent_pc' = "done"
  /\ UNCHANGED <<agent_messages, responses, requests, graphVars>>

NextAgent == CreateCompletion \/ HandleToolCalls \/ Finish

SpecAgent == Init /\ [][NextAgent]_vars

TypeOK ==
  /\ status \in {"NEW", "RUNNING", "SUSPENDED", "TERMINATED", "ERROR"}
  /\ state.intent \in {"refund", "consult", "unknown"}
  /\ state.refund_decision \in {"pending", "approved", "declined"}
  /\ state.needs_human \in BOOLEAN
  /\ mpc \in {"input", "invoke", "exited"}
  /\ turns \in 0..MaxTurns
  /\ cursor \in 0..Len(state.messages)
  /\ agent_pc \in {"request", "respond", "done", "raised"}
  /\ Len(requests) \in 0..MaxRequests
  /\ Len(responses) = Len(requests)

\* ------------------------------------------------------------- claims
\* The text of the message the latest run was started with.
RunText == state.messages[Len(runStart.messages) + 1].content

HasRefundKeyword(text) == \E i \in DOMAIN text : text[i] \in {"refund", "Refund", "tuikuan"}
HasAngerKeyword(text) == \E i \in DOMAIN text : text[i] \in _ANGRY_WORDS

IsPrefix(a, b) == Len(a) <= Len(b) /\ SubSeq(b, 1, Len(a)) = a
Count(tr, e) == Cardinality({i \in DOMAIN tr : tr[i] = e})

\* True, or a dict whose "approved" entry is truthy.
IsApproving(v) ==
  \/ v = PyBool(TRUE)
  \/ v.kind = "dict" /\ "approved" \in DOMAIN v.d /\ Truthy(v.d["approved"])

\* False, or a dict whose "approved" entry is falsy or absent.
IsDeclining(v) ==
  \/ v = PyBool(FALSE)
  \/ v.kind = "dict" /\ ("approved" \notin DOMAIN v.d \/ ~Truthy(v.d["approved"]))

\* C1: once refund_transaction_id is set, no step clears it or replaces it
\* by another value.
C1_TxNeverClearedOrReplaced ==
  [][state.refund_transaction_id # None
       => state'.refund_transaction_id = state.refund_transaction_id]_vars

\* A thread holding a transaction id whose process_refund was re-executed and
\* which then went through a later run.
C1_Witness ==
  /\ state.refund_transaction_id # None
  /\ reruns > 0
  /\ trace = <<"classify_intent", "refund_status">>

ApprovedTrace ==
  <<"classify_intent", "interrupt", "resume", "confirm_refund", "process_refund",
    "_issue_refund_tool">>

\* C3: a run resumed at confirm_refund with an approving value gets
\* refund_decision approved, is routed to process_refund, calls the refund tool
\* exactly once, stores the result in refund_transaction_id and ends without
\* suspending again.
C3_ApproveIssuesOnceAndEnds ==
  IsApproving(lastResume) =>
    /\ status \in {"RUNNING", "TERMINATED"}
    /\ IsPrefix(trace, ApprovedTrace)
    /\ Len(trace) = 3 => next = "confirm_refund" /\ status = "RUNNING"
    /\ Len(trace) >= 4 =>
         /\ state.refund_decision = "approved"
         /\ route = [from |-> "confirm_refund", key |-> "process_refund"]
    /\ Len(trace) = 4 => next = "process_refund" /\ status = "RUNNING"
    /\ status = "TERMINATED" =>
         /\ trace = ApprovedTrace
         /\ refundCalls # <<>>
         /\ StrTruthy(state.refund_transaction_id)
         /\ state.refund_transaction_id = refundCalls[Len(refundCalls)].tx

\* A run approved with the plain value True has ended with its refund issued.
C3_Witness ==
  /\ lastResume = PyBool(TRUE)
  /\ status = "TERMINATED"
  /\ Len(refundCalls) = 1

DeclinedTrace == <<"classify_intent", "interrupt", "resume", "confirm_refund">>

\* C4: a run resumed at confirm_refund with a declining value gets
\* refund_decision declined and ends there: process_refund is not executed, the
\* refund tool is not called and refund_transaction_id stays None.
C4_DeclineEndsWithoutRefund ==
  IsDeclining(lastResume) =>
    /\ status \in {"RUNNING", "TERMINATED"}
    /\ IsPrefix(trace, DeclinedTrace)
    /\ status = "RUNNING" => next = "confirm_refund" /\ Len(trace) = 3
    /\ status = "TERMINATED" =>
         /\ trace = DeclinedTrace
         /\ state.refund_decision = "declined"
         /\ route = [from |-> "confirm_refund", key |-> "end"]
         /\ next = "END"
    /\ state.refund_transaction_id = None
    /\ refundCalls = <<>>

\* A run declined with a dict that has no "approved" entry has ended.
C4_Witness ==
  /\ lastResume = PyDict([note |-> PyStr(<<"y">>)])
  /\ status = "TERMINATED"
  /\ state.refund_decision = "declined"

\* C5: on a thread without a transaction id, a message with a refund keyword
\* and no anger keyword gets intent refund and refund_decision pending, is
\* routed to confirm_refund and suspends there with a confirm_refund payload
\* whose order id is the one in user_info ("12345" for "refund order 12345");
\* no refund tool call has been made when it suspends.
C5_RefundRequestSuspends ==
  (/\ status # "NEW"
   /\ trace # <<>>
   /\ runStart.refund_transaction_id = None
   /\ HasRefundKeyword(RunText)
   /\ ~HasAngerKeyword(RunText)) =>
    /\ trace[1] = "classify_intent"
    /\ state.intent = "refund"
    /\ Len(trace) = 1 =>
         /\ state.refund_decision = "pending"
         /\ route = [from |-> "classify_intent", key |-> "confirm_refund"]
         /\ status = "RUNNING" /\ next = "confirm_refund"
    /\ Len(trace) >= 2 => trace[2] = "interrupt"
    /\ Len(trace) = 2 =>
         /\ status = "SUSPENDED"
         /\ next = "confirm_refund"
         /\ state.refund_decision = "pending"
         /\ interrupt.type = "confirm_refund"
         /\ interrupt.context.order_id = Get(state.user_info, "order_id")
         /\ RunText = <<"refund", "order", "12345">>
              => interrupt.context.order_id = "12345"
         /\ refundCalls = <<>>

\* The run of "Refund ORDER # 678" is suspended with order id 678.
C5_Witness ==
  /\ status = "SUSPENDED"
  /\ RunText = <<"Refund", "ORDER", "#", "678">>
  /\ interrupt.context.order_id = "678"

\* C6: on a thread holding a transaction id, a message with refund intent and
\* no anger keyword goes from classify_intent to refund_status and ends:
\* confirm_refund is not executed, the run does not suspend, the refund tool is
\* not called, refund_decision and refund_transaction_id stay as they were.
C6_RefundAfterIssueGoesToStatus ==
  (/\ status # "NEW"
   /\ trace # <<>>
   /\ StrTruthy(runStart.refund_transaction_id)
   /\ HasRefundKeyword(RunText)
   /\ ~HasAngerKeyword(RunText)) =>
    /\ IsPrefix(trace, <<"classify_intent", "refund_status">>)
    /\ Len(trace) = 1 => status = "RUNNING" /\ next = "refund_status"
    /\ Len(trace) = 2 => status = "TERMINATED"
    /\ lastResume = NoResume
    /\ state.refund_decision = runStart.refund_decision
    /\ state.refund_transaction_id = runStart.refund_transaction_id

\* A refund message on a thread holding a transaction id has been answered by
\* refund_status.
C6_Witness ==
  /\ status = "TERMINATED"
  /\ StrTruthy(runStart.refund_transaction_id)
  /\ HasRefundKeyword(RunText)
  /\ trace = <<"classify_intent", "refund_status">>
  /\ state.messages[Len(state.messages)].content[1] = "status"

\* C7: a message with an anger keyword sets needs_human and goes to
\* human_handoff, whatever its intent, and the run ends: confirm_refund,
\* process_refund and refund_status are not executed, the run does not suspend
\* and the refund tool is not called.
C7_AngerGoesToHandoff ==
  (status # "NEW" /\ trace # <<>> /\ HasAngerKeyword(RunText)) =>
    /\ state.needs_human
    /\ IsPrefix(trace, <<"classify_intent", "human_handoff">>)
    /\ Len(trace) = 1 =>
         /\ status = "RUNNING" /\ next = "human_handoff"
         /\ route = [from |-> "classify_intent", key |-> "human_handoff"]
    /\ Len(trace) = 2 => status = "TERMINATED"
    /\ lastResume = NoResume

\* An angry refund message has been handed off.
C7_Witness ==
  /\ status = "TERMINATED"
  /\ RunText = <<"refund", "laji">>
  /\ state.intent = "refund"
  /\ trace = <<"classify_intent", "human_handoff">>

\* C8: every key _route_after_classify returns is one of the four mapped in
\* build_app, every key _route_after_confirm returns is one of its two, and no
\* run stops at an unmapped route.
C8_RoutersTotal ==
  /\ status # "ERROR"
  /\ next # "UNMAPPED"
  /\ route.from = "classify_intent" =>
       route.key \in {"human_handoff", "confirm_refund", "refund_status", "answer_consult"}
  /\ route.from = "confirm_refund" => route.key \in {"process_refund", "end"}

\* _route_after_confirm has sent a declined run to END.
C8_Witness ==
  /\ route = [from |-> "confirm_refund", key |-> "end"]
  /\ status = "TERMINATED"
  /\ turns > 1

\* A step that resumes the suspended run and does nothing else.
IsResumeStep ==
  /\ trace' = Append(trace, "resume")
  /\ status' = "RUNNING"
  /\ state' = state
  /\ turns' = turns

\* C10: main drives every message to the end of its run before it reads the
\* next one: while the run is suspended the only step is a Resume, a Resume
\* happens only on a suspended run, every suspension has got exactly one
\* Resume once the run goes on, and no message is submitted while the thread
\* is suspended.
C10_MainDrivesRunToCompletion ==
  /\ [](mpc = "input" => status \in {"NEW", "TERMINATED"})
  /\ [](Count(trace, "resume") =
          Count(trace, "interrupt") - (IF status = "SUSPENDED" THEN 1 ELSE 0))
  /\ [][status = "SUSPENDED" => IsResumeStep]_vars
  /\ [][trace' = Append(trace, "resume") => status = "SUSPENDED" /\ IsResumeStep]_vars
  /\ [][turns' # turns => status \in {"NEW", "TERMINATED"}]_vars

\* main is back at its prompt after a run that was suspended and resumed.
C10_Witness ==
  /\ mpc = "input"
  /\ status = "TERMINATED"
  /\ Count(trace, "interrupt") = 1
  /\ Count(trace, "resume") = 1
\* ------------------------------------------- claims on the refund thread
\* The contents of the assistant messages of a log, in log order.
RECURSIVE AssistantContents(_)
AssistantContents(log) ==
  IF log = <<>> THEN <<>>
  ELSE IF Head(log).type = "ai"
  THEN <<Head(log).content>> \o AssistantContents(Tail(log))
  ELSE AssistantContents(Tail(log))

InTrace(e) == \E i \in DOMAIN trace : trace[i] = e

\* C12: no step removes, replaces or reorders an entry of the message log, and
\* what main has printed is always the assistant messages of the log in log
\* order, each once: a beginning of them while a run is under way, all of
\* them whenever main is back at its prompt or has left.
C12_LogAppendOnlyEachAssistantMessagePrintedOnce ==
  /\ [][IsPrefix(state.messages, state'.messages)]_vars
  /\ [](IsPrefix(printed, AssistantContents(state.messages)))
  /\ [](mpc \in {"input", "exited"} => printed = AssistantContents(state.messages))

\* main is back at its prompt after a second run, one that was suspended and
\* resumed, with both runs' assistant messages printed.
C12_Witness ==
  /\ mpc = "input"
  /\ turns = 2
  /\ InTrace("resume")
  /\ Len(printed) >= 3
  /\ cursor = Len(state.messages)

\* C13: the step in which confirm_refund suspends changes no field of the
\* state and calls no external action, and the resume that follows re-enters
\* confirm_refund on that same state.
C13_ConfirmRefundSuspendsWithoutEffect ==
  /\ [][(status = "RUNNING" /\ next = "confirm_refund" /\ status' = "SUSPENDED")
          => (state' = state /\ refundCalls' = refundCalls /\ next' = next)]_vars
  /\ [][(status = "SUSPENDED" /\ status' = "RUNNING")
          => (state' = state /\ refundCalls' = refundCalls
              /\ next' = "confirm_refund" /\ resume' # NoResume)]_vars
  /\ [](status = "SUSPENDED" => next = "confirm_refund" /\ ~InTrace("_issue_refund_tool"))

\* confirm_refund is about to run again, with a value to resume with.
C13_Witness ==
  /\ status = "RUNNING"
  /\ next = "confirm_refund"
  /\ resume # NoResume
  /\ trace = <<"classify_intent", "interrupt", "resume">>

\* C14: the refund tool is called at most once on the thread, and a run in
\* which it is called is one whose last confirmation was answered with an
\* approval.
C14_RefundIssuedAtMostOnceAndOnlyWhenApproved ==
  /\ Len(refundCalls) <= 1
  /\ InTrace("_issue_refund_tool") => lastResume = PyDict([approved |-> PyBool(TRUE)])

\* The refund was issued in an earlier run and asked for again in the third.
C14_Witness ==
  /\ Len(refundCalls) = 1
  /\ turns = 3
  /\ status = "TERMINATED"
  /\ InTrace("refund_status")

\* The latest run started on a thread whose refund was declined and not issued.
StartedDeclined ==
  /\ runStart.refund_decision = "declined"
  /\ runStart.refund_transaction_id = None
  /\ trace # <<>>
  /\ HasRefundKeyword(RunText)

\* C15 as stated: after a decline without a transaction id, an input with
\* refund intent resets refund_decision to pending and the run suspends at
\* confirm_refund again; once a transaction id is present refund_decision is
\* left as it was on every later input.
C15_RefundAfterDeclineSuspendsAgain ==
  /\ StartedDeclined =>
       /\ trace[1] = "classify_intent"
       /\ Len(trace) = 1 =>
            (state.refund_decision = "pending" /\ status = "RUNNING"
             /\ next = "confirm_refund")
       /\ Len(trace) >= 2 => trace[2] = "interrupt"
       /\ Len(trace) = 2 => (status = "SUSPENDED" /\ state.refund_decision = "pending")
  /\ StrTruthy(runStart.refund_transaction_id) =>
       state.refund_decision = runStart.refund_decision

\* C15 as amended: after a decline without a transaction id, an input with
\* refund intent resets refund_decision to pending; the run then suspends at
\* confirm_refund again unless the input also holds an anger keyword, in which
\* case it goes to human_handoff and ends without suspending.  Once a
\* transaction id is present refund_decision is left as it was on every later
\* input.
C15_RefundAfterDeclineResetsAndSuspendsUnlessAngry ==
  /\ StartedDeclined =>
       /\ trace[1] = "classify_intent"
       /\ Len(trace) = 1 => (state.refund_decision = "pending" /\ status = "RUNNING")
       /\ ~HasAngerKeyword(RunText) =>
            /\ Len(trace) = 1 => next = "confirm_refund"
            /\ Len(trace) >= 2 => trace[2] = "interrupt"
            /\ Len(trace) = 2 => (status = "SUSPENDED" /\ state.refund_decision = "pending")
       /\ HasAngerKeyword(RunText) =>
            /\ Len(trace) = 1 => next = "human_handoff"
            /\ Len(trace) >= 2 =>
                 (trace = <<"classify_intent", "human_handoff">>
                  /\ status = "TERMINATED" /\ state.refund_decision = "pending")
  /\ StrTruthy(runStart.refund_transaction_id) =>
       state.refund_decision = runStart.refund_decision

\* A thread whose refund was declined is suspended at confirm_refund again.
C15_Witness ==
  /\ StartedDeclined
  /\ ~HasAngerKeyword(RunText)
  /\ status = "SUSPENDED"
  /\ trace = <<"classify_intent", "interrupt">>

\* The user messages classify_intent has read so far: all of the log, but for
\* the one of a run whose first node has not run yet.
ClassifiedTexts ==
  LET IsHuman(m) == m.type = "human"
      log == IF status = "RUNNING" /\ trace = <<>>
             THEN SubSeq(state.messages, 1, Len(state.messages) - 1)
             ELSE state.messages
  IN [i \in DOMAIN SelectSeq(log, IsHuman) |-> SelectSeq(log, IsHuman)[i].content]

\* The order id of the last of texts that holds one; None if none does.
RECURSIVE LastOrderId(_)
LastOrderId(texts) ==
  IF texts = <<>> THEN None
  ELSE LET info == _extract_user_info(texts[Len(texts)])
       IN IF "order_id" \in DOMAIN info THEN info["order_id"]
          ELSE LastOrderId(SubSeq(texts, 1, Len(texts) - 1))

\* C16: user_info's order_id is the order id of the most recent input that
\* held one, and user_info has no order_id exactly when no input held one.
C16_OrderIdIsTheMostRecentOne ==
  /\ "order_id" \in DOMAIN state.user_info <=> LastOrderId(ClassifiedTexts) # None
  /\ Get(state.user_info, "order_id") = LastOrderId(ClassifiedTexts)

\* A first input named order 12345, a later one order 678, and the third run
\* ended on an input without an order id.
C16_Witness ==
  /\ turns = 3
  /\ status = "TERMINATED"
  /\ _extract_user_info(RunText) = EmptyDict
  /\ Get(state.user_info, "order_id") = "678"
  /\ \E i \in DOMAIN ClassifiedTexts :
       Get(_extract_user_info(ClassifiedTexts[i]), "order_id") = "12345"

\* C17: from the suspension at confirm_refund to the end of the run,
\* user_info's order_id is the one of the confirmation payload, and the refund
\* tool is called for that order id.
C17_RefundedOrderIsTheConfirmedOne ==
  /\ lastPayload # NoInterrupt =>
       /\ lastPayload.type = "confirm_refund"
       /\ Get(state.user_info, "order_id") = lastPayload.context.order_id
  /\ InTrace("_issue_refund_tool") =>
       /\ lastPayload # NoInterrupt
       /\ refundCalls[Len(refundCalls)].order_id = lastPayload.context.order_id

\* The refund was issued for order 12345, which an earlier input had named and
\* the confirmed run's input did not.
C17_Witness ==
  /\ InTrace("_issue_refund_tool")
  /\ lastPayload # NoInterrupt
  /\ lastPayload.context.order_id = "12345"
  /\ refundCalls[1].order_id = "12345"
  /\ _extract_user_info(RunText) = EmptyDict

\* C18: a state with a transaction id has refund_decision approved.
C18_TransactionIdOnlyWhenApproved ==
  StrTruthy(state.refund_transaction_id) => state.refund_decision = "approved"

\* A refund has been issued and a later run has classified another refund
\* request.
C18_Witness ==
  /\ StrTruthy(runStart.refund_transaction_id)
  /\ trace # <<>>
  /\ HasRefundKeyword(RunText)
  /\ state.refund_decision = "approved"

\* C19: confirm_refund is entered only with refund_decision pending and no
\* transaction id, and its first entry of a run suspends; process_refund is
\* entered only with refund_decision approved and no transaction id, and it
\* then calls the refund tool and stores the transaction id.
C19_RefundStepsEnteredWithGuardsTrue ==
  /\ []((status = "RUNNING" /\ next = "confirm_refund") =>
          (state.refund_decision = "pending" /\ state.refund_transaction_id = None))
  /\ []((status = "RUNNING" /\ next = "process_refund") =>
          (state.refund_decision = "approved" /\ state.refund_transaction_id = None))
  /\ [][(status = "RUNNING" /\ next = "confirm_refund" /\ resume = NoResume)
          => status' = "SUSPENDED"]_vars
  /\ [][(status = "RUNNING" /\ next = "process_refund")
          => (/\ Len(refundCalls') = Len(refundCalls) + 1
              /\ StrTruthy(state'.refund_transaction_id)
              /\ state'.messages[Len(state'.messages)].content[1] = "issued")]_vars
  /\ []((status = "RUNNING" /\ next = "confirm_refund" /\ ~InTrace("interrupt"))
          => resume = NoResume)

\* process_refund is about to run on a thread whose earlier request was
\* declined.
C19_Witness ==
  /\ status = "RUNNING"
  /\ next = "process_refund"
  /\ runStart.refund_decision = "declined"
  /\ turns = 2

\* ---------------------------------------------------- claims on run_agent
\* The tool call id of assistant message i of log has a tool message after it.
Answered(log, i, id) ==
  \E j \in DOMAIN log : j > i /\ log[j].role = "tool" /\ log[j].tool_call_id = id

\* C11: every completion request is sent with a history in which every tool
\* call of every earlier assistant response has a tool message carrying its
\* tool_call_id, whatever function the call names.
C11_EveryToolCallAnsweredBeforeNextRequest ==
  \A r \in DOMAIN requests :
    \A i \in DOMAIN requests[r] :
      requests[r][i].role = "assistant" =>
        \A k \in DOMAIN requests[r][i].tool_calls.calls :
          Answered(requests[r], i, requests[r][i].tool_calls.calls[k].id)

\* A response without tool calls: None or the empty list.
NoToolCalls(m) == m.tool_calls.none \/ m.tool_calls.calls = <<>>

\* Running the call raises: its arguments are not JSON, or it names multiply
\* without both operands.
CallRaises(c) ==
  \/ ~c.arguments.json
  \/ c.name = "multiply" /\ ~({"a", "b"} \subseteq DOMAIN c.arguments.obj)

Raises(m) == \E k \in DOMAIN m.tool_calls.calls : CallRaises(m.tool_calls.calls[k])

\* C20 as stated: once a response has been dealt with, the loop has ended
\* exactly when that response holds no tool calls, which is then the first
\* such response; every response has had its one request.
C20_LoopEndsIffResponseWithoutToolCalls ==
  LET n == Len(responses)
  IN /\ Len(requests) = n
     /\ \A i \in 1..(n - 1) : ~NoToolCalls(responses[i])
     /\ agent_pc # "respond" =>
          ((agent_pc \in {"done", "raised"}) <=> (n > 0 /\ NoToolCalls(responses[n])))

\* C20 as amended: run_agent returns at the first response without tool
\* calls and requests nothing after it; a response with tool calls is followed
\* by exactly one further request unless running one of its calls raises, and
\* then run_agent is left by that exception and requests nothing more.
C20_LoopEndsAtFirstPlainResponseOrException ==
  /\ [](LET n == Len(responses)
        IN /\ Len(requests) = n
           /\ \A i \in 1..(n - 1) : ~NoToolCalls(responses[i]) /\ ~Raises(responses[i])
           /\ agent_pc = "done" => (n > 0 /\ NoToolCalls(responses[n]))
           /\ agent_pc = "raised" =>
                (n > 0 /\ ~NoToolCalls(responses[n]) /\ Raises(responses[n]))
           /\ agent_pc = "request" =>
                (n = 0 \/ (~NoToolCalls(responses[n]) /\ ~Raises(responses[n]))))
  /\ [][(agent_pc = "done" \/ agent_pc = "raised") => (agentVars' = agentVars)]_vars
  /\ [][(agent_pc = "respond" /\ ~NoToolCalls(responses[Len(responses)])
           /\ ~Raises(responses[Len(responses)]))
          => (agent_pc' = "request" /\ requests' = requests)]_vars
  /\ [][(agent_pc = "request" /\ requests' # requests)
          => Len(requests') = Len(requests) + 1]_vars

\* run_agent has returned at its third response, after two rounds of tools.
C20_Witness ==
  /\ agent_pc = "done"
  /\ Len(responses) = 3
  /\ Len(requests) = 3
====
